---- MODULE Spec2Model ----
(***************************************************************************)
(* A model of mcp-graphql-server: the configuration built at start-up      *)
(* (config.ts), the GraphQL request utilities (utils.ts) and the tool      *)
(* handlers and dispatcher (index.ts).                                     *)
(*                                                                         *)
(* Texts are TLA+ strings, built with \o exactly where the code builds a   *)
(* template string.  JavaScript numbers are records [nan, v] so that NaN   *)
(* keeps its comparison semantics.  A GraphQL query text is the sequence   *)
(* of its tokens.                                                          *)
(***************************************************************************)
EXTENDS Integers, Sequences, FiniteSets, TLC

VARIABLES
    argv,       \* process.argv after hideBin, as the options yargs sees
    env,        \* process.env: ENDPOINT, TIMEOUT, MAX_DEPTH
    config,     \* the exported Config instance
    phase,      \* "loading" | "starting" | "serving" | "exited"
    exitCause,  \* why the process exited, "none" while it runs
    inv,        \* the tool invocations, one record per slot
    listed      \* the tools of the last tools/list response, <<>> before any

vars == <<argv, env, config, phase, exitCause, inv, listed>>

----------------------------------------------------------------------------
(* Bounds *)

MaxDefs == 2        \* definitions in a generated query document
MaxFields == 3      \* Field nodes in one generated definition
MaxErrors == 2      \* entries of a response's errors array
MaxElapsed == 1     \* milliseconds Date.now() can advance while awaiting

----------------------------------------------------------------------------
(* JavaScript values *)

NaN == [nan |-> TRUE, v |-> 0]
Num(n) == [nan |-> FALSE, v |-> n]

\* a > b on numbers: false as soon as one side is NaN
JsGreater(a, b) == ~a.nan /\ ~b.nan /\ a.v > b.v

\* `${n}` for a number
NumText(a) == IF a.nan THEN "NaN" ELSE ToString(a.v)

Absent == [set |-> FALSE, s |-> ""]
Str(s) == [set |-> TRUE, s |-> s]
NoNum == [set |-> FALSE, n |-> NaN]
SomeNum(n) == [set |-> TRUE, n |-> Num(n)]

\* s[i], the empty text outside s
CharAt(s, i) == IF i >= 1 /\ i <= Len(s) THEN SubSeq(s, i, i) ELSE ""

Digits == <<"0", "1", "2", "3", "4", "5", "6", "7", "8", "9">>
IsDigit(c) == \E d \in 1..10 : Digits[d] = c
DigitVal(c) == (CHOOSE d \in 1..10 : Digits[d] = c) - 1

RECURSIVE DecimalValue(_, _)
DecimalValue(s, n) ==
    IF n = 0 THEN 0 ELSE 10 * DecimalValue(s, n - 1) + DigitVal(CharAt(s, n))

\* Number(x) for x a string or undefined: undefined and non-numeric text
\* give NaN, the empty string gives 0
JsNumber(x) ==
    IF ~x.set THEN NaN
    ELSE IF \A i \in 1..Len(x.s) : IsDigit(CharAt(x.s, i))
         THEN Num(DecimalValue(x.s, Len(x.s)))
         ELSE NaN

\* a ?? b where a is a number: a number is never null or undefined
NullishNum(a, b) == a

\* a ?? b where a is an environment string or undefined
NullishStr(a, b) == IF a.set THEN a.s ELSE b

\* does text contain sub
Contains(text, sub) ==
    \E i \in 1..(Len(text) - Len(sub) + 1) : SubSeq(text, i, i + Len(sub) - 1) = sub

StartsWith(text, pre) == Len(text) >= Len(pre) /\ SubSeq(text, 1, Len(pre)) = pre

----------------------------------------------------------------------------
(* JSON.parse, on the texts the model draws: a flat object of string       *)
(* members, an array, a number, a string, a literal; anything else is a    *)
(* SyntaxError.                                                            *)

Quote == "\""

\* index of the first quote at or after i, Len(s) + 1 when there is none
RECURSIVE NextQuote(_, _)
NextQuote(s, i) ==
    IF i > Len(s) THEN Len(s) + 1
    ELSE IF CharAt(s, i) = Quote THEN i ELSE NextQuote(s, i + 1)

NoMembers == [k \in {} |-> ""]

\* the members "k":"v",... of s from position i up to the closing brace;
\* ok is FALSE when the text is not of that form
RECURSIVE JsonMembers(_, _, _)
JsonMembers(s, i, acc) ==
    IF CharAt(s, i) # Quote THEN [ok |-> FALSE, obj |-> NoMembers]
    ELSE LET k2 == NextQuote(s, i + 1)
             v1 == k2 + 2
             v2 == NextQuote(s, v1 + 1)
             key == SubSeq(s, i + 1, k2 - 1)
             val == SubSeq(s, v1 + 1, v2 - 1)
             more == [k \in DOMAIN acc \cup {key} |-> IF k = key THEN val ELSE acc[k]]
         IN IF v2 >= Len(s) \/ CharAt(s, k2 + 1) # ":" \/ CharAt(s, v1) # Quote
            THEN [ok |-> FALSE, obj |-> NoMembers]
            ELSE IF CharAt(s, v2 + 1) = "}" /\ v2 + 1 = Len(s)
                 THEN [ok |-> TRUE, obj |-> more]
                 ELSE IF CharAt(s, v2 + 1) = ","
                      THEN JsonMembers(s, v2 + 2, more)
                      ELSE [ok |-> FALSE, obj |-> NoMembers]

JsonFail(s) ==
    [ok |-> FALSE, kind |-> "error", str |-> "", obj |-> NoMembers,
     message |-> IF s = "" THEN "Unexpected end of JSON input"
                 ELSE "Unexpected token " \o CharAt(s, 1) \o " in JSON"]

JsonValue(kind, str, obj) ==
    [ok |-> TRUE, kind |-> kind, str |-> str, obj |-> obj, message |-> ""]

JsonObject(s, m) == IF m.ok THEN JsonValue("object", "", m.obj) ELSE JsonFail(s)

JSONParse(s) ==
    LET n == Len(s)
        c == CharAt(s, 1)
    IN IF n = 0 THEN JsonFail(s)
       ELSE IF c = "{" THEN
            IF s = "{}" THEN JsonValue("object", "", NoMembers)
            ELSE JsonObject(s, JsonMembers(s, 2, NoMembers))
       ELSE IF c = "[" THEN
            IF CharAt(s, n) = "]" THEN JsonValue("array", "", NoMembers) ELSE JsonFail(s)
       ELSE IF c = Quote THEN
            IF n >= 2 /\ NextQuote(s, 2) = n
            THEN JsonValue("string", SubSeq(s, 2, n - 1), NoMembers)
            ELSE JsonFail(s)
       ELSE IF s = "null" THEN JsonValue("null", "", NoMembers)
       ELSE IF s \in {"true", "false"} THEN JsonValue("boolean", "", NoMembers)
       ELSE IF \A i \in 1..n : IsDigit(CharAt(s, i)) THEN JsonValue("number", "", NoMembers)
       ELSE JsonFail(s)

----------------------------------------------------------------------------
(* config.ts *)

DefaultEndpointUrl == "http://localhost:4000/graphql"
DefaultTimeoutMs == 30000
DefaultMaxComplexity == 100

\* the yargs option defaults
EndpointDefault(e) == NullishStr(e.ENDPOINT, DefaultEndpointUrl)
TimeoutDefault(e) == NullishNum(JsNumber(e.TIMEOUT), Num(DefaultTimeoutMs))
MaxComplexityDefault(e) == NullishNum(JsNumber(e.MAX_DEPTH), Num(DefaultMaxComplexity))

\* yargs(...).parseSync(): a flag wins, else the option's default
parseArguments(a, e) ==
    [endpoint |-> IF a.endpoint.set THEN a.endpoint.s ELSE EndpointDefault(e),
     headers |-> a.headers,
     timeout |-> IF a.timeout.set THEN a.timeout.n ELSE TimeoutDefault(e),
     maxComplexity |-> IF a.maxComplexity.set THEN a.maxComplexity.n
                       ELSE MaxComplexityDefault(e)]

\* the header flag: Object.assign({}, JSON.parse(text)), {} when the flag is
\* absent, empty, or does not parse
AssignedHeaders(j) == IF j.ok THEN j.obj ELSE NoMembers

ConfigHeaders(h) ==
    IF ~h.set \/ h.s = "" THEN NoMembers ELSE AssignedHeaders(JSONParse(h.s))

NewConfig(a, e) ==
    LET parsed == parseArguments(a, e)
    IN [endpoint |-> parsed.endpoint,
        maxQueryComplexity |-> parsed.maxComplexity,
        timeout |-> parsed.timeout,
        headers |-> ConfigHeaders(parsed.headers)]

NoConfig ==
    [endpoint |-> "", maxQueryComplexity |-> NaN, timeout |-> NaN, headers |-> NoMembers]

----------------------------------------------------------------------------
(* graphql: parse and the document it returns.  A document is a sequence   *)
(* of definitions; a selection set is a sequence of Field nodes, each with *)
(* its own selection set.                                                  *)

OperationKeywords == {"query", "mutation", "subscription"}
Names == OperationKeywords \cup {"f", "fragment", "F", "on", "T"}

TokenText(t, i) ==
    IF i > Len(t) THEN "<EOF>"
    ELSE IF t[i] \in Names THEN "Name " \o Quote \o t[i] \o Quote
    ELSE Quote \o t[i] \o Quote

SyntaxError(msg) ==
    [ok |-> FALSE, message |-> "Syntax Error: " \o msg, node |-> <<>>, next |-> 0]

Parsed(node, next) == [ok |-> TRUE, message |-> "", node |-> node, next |-> next]

FieldNode(selections) == [kind |-> "Field", selections |-> selections]

\* the selections up to the closing brace, at least one; a Name followed by
\* an opening brace is a field with its own selections
RECURSIVE ParseSelections(_, _, _)
RECURSIVE AppendField(_, _, _)
ParseSelections(t, i, acc) ==
    IF i <= Len(t) /\ t[i] = "}" /\ acc # <<>> THEN Parsed(acc, i + 1)
    ELSE IF i > Len(t) \/ t[i] \notin Names
         THEN SyntaxError("Expected Name, found " \o TokenText(t, i) \o ".")
         ELSE IF i + 1 <= Len(t) /\ t[i + 1] = "{"
              THEN AppendField(t, acc, ParseSelections(t, i + 2, <<>>))
              ELSE ParseSelections(t, i + 1, Append(acc, FieldNode(<<>>)))

\* the field whose selections are sub, then the selections after it
AppendField(t, acc, sub) ==
    IF sub.ok THEN ParseSelections(t, sub.next, Append(acc, FieldNode(sub.node)))
    ELSE sub

ParseSelectionSet(t, i) ==
    IF i <= Len(t) /\ t[i] = "{" THEN ParseSelections(t, i + 1, <<>>)
    ELSE SyntaxError("Expected " \o Quote \o "{" \o Quote \o ", found "
                     \o TokenText(t, i) \o ".")

\* what precedes the selection set of the definition at token i: its kind,
\* its operation type, and where the selection set starts
DefinitionHead(kind, operation, body) ==
    [ok |-> TRUE, message |-> "", kind |-> kind, operation |-> operation, body |-> body]

HeadError(msg) ==
    [ok |-> FALSE, message |-> msg, kind |-> "", operation |-> "", body |-> 0]

ParseDefinitionHead(t, i) ==
    IF t[i] = "{" THEN DefinitionHead("OperationDefinition", "query", i)
    ELSE IF t[i] \in OperationKeywords THEN
        DefinitionHead("OperationDefinition", t[i],
                       IF i + 1 <= Len(t) /\ t[i + 1] \in Names THEN i + 2 ELSE i + 1)
    ELSE IF t[i] = "fragment" THEN
        IF i + 1 > Len(t) \/ t[i + 1] \notin Names \/ t[i + 1] = "on"
        THEN HeadError("Unexpected " \o TokenText(t, i + 1) \o ".")
        ELSE IF i + 2 > Len(t) \/ t[i + 2] # "on"
        THEN HeadError("Expected " \o Quote \o "on" \o Quote \o ", found "
                       \o TokenText(t, i + 2) \o ".")
        ELSE IF i + 3 > Len(t) \/ t[i + 3] \notin Names
        THEN HeadError("Expected Name, found " \o TokenText(t, i + 3) \o ".")
        ELSE DefinitionHead("FragmentDefinition", "", i + 4)
    ELSE HeadError("Unexpected " \o TokenText(t, i) \o ".")

\* the definition node of a head and its selection set
DefinitionNode(head, s) ==
    IF s.ok
    THEN Parsed([kind |-> head.kind, operation |-> head.operation, selections |-> s.node],
                s.next)
    ELSE s

WithSelectionSet(t, head) ==
    IF head.ok THEN DefinitionNode(head, ParseSelectionSet(t, head.body))
    ELSE SyntaxError(head.message)

\* one definition starting at token i
ParseDefinition(t, i) == WithSelectionSet(t, ParseDefinitionHead(t, i))

RECURSIVE ParseDefinitions(_, _, _)
RECURSIVE AppendDefinition(_, _, _)
ParseDefinitions(t, i, acc) ==
    IF i > Len(t)
    THEN IF acc = <<>> THEN SyntaxError("Unexpected <EOF>.") ELSE Parsed(acc, i)
    ELSE AppendDefinition(t, acc, ParseDefinition(t, i))

AppendDefinition(t, acc, d) ==
    IF d.ok THEN ParseDefinitions(t, d.next, Append(acc, d.node)) ELSE d

\* a query argument: a string (its tokens) or a value of another type
QueryString(t) == [type |-> "string", tokens |-> t]
QueryUndefined == [type |-> "undefined", tokens |-> <<>>]

\* parse(source): the document, or the error it throws (ok = FALSE): a
\* GraphQLError for a text the grammar rejects, the Source constructor's
\* assertion for a source that is not a string
Document(r) == [ok |-> r.ok, message |-> r.message, definitions |-> r.node]

parse(q) ==
    IF q.type # "string"
    THEN [ok |-> FALSE, message |-> "Body must be a string. Received: " \o q.type \o ".",
          definitions |-> <<>>]
    ELSE Document(ParseDefinitions(q.tokens, 1, <<>>))

\* visit(document, { Field }): the number of Field nodes entered
RECURSIVE VisitFields(_)
VisitFields(selections) ==
    IF selections = <<>> THEN 0
    ELSE 1 + VisitFields(Head(selections).selections) + VisitFields(Tail(selections))

RECURSIVE VisitDefinitions(_)
VisitDefinitions(definitions) ==
    IF definitions = <<>> THEN 0
    ELSE VisitFields(Head(definitions).selections) + VisitDefinitions(Tail(definitions))

----------------------------------------------------------------------------
(* The query texts the model draws *)

RECURSIVE FlatBody(_)
FlatBody(n) == IF n = 0 THEN <<>> ELSE <<"f">> \o FlatBody(n - 1)

RECURSIVE NestedBody(_)
NestedBody(n) == IF n = 1 THEN <<"f">> ELSE <<"f", "{">> \o NestedBody(n - 1) \o <<"}">>

Header(kind) ==
    CASE kind = "anonymous" -> <<>>
      [] kind = "fragment" -> <<"fragment", "F", "on", "T">>
      [] OTHER -> <<kind>>

DefinitionKinds == {"anonymous", "query", "mutation", "fragment"}

\* one definition with n fields, side by side or nested in one another
DefinitionTexts(n) ==
    {Header(k) \o <<"{">> \o b \o <<"}">> :
        k \in DefinitionKinds, b \in {FlatBody(n), NestedBody(n)}}

\* documents of one definition with up to MaxFields fields, and documents of
\* up to MaxDefs single-field definitions
RECURSIVE SingleFieldDocuments(_)
SingleFieldDocuments(d) ==
    IF d = 1 THEN DefinitionTexts(1)
    ELSE {a \o b : a \in SingleFieldDocuments(d - 1), b \in DefinitionTexts(1)}

WellFormedTexts ==
    UNION {DefinitionTexts(n) : n \in 1..MaxFields}
    \cup UNION {SingleFieldDocuments(d) : d \in 1..MaxDefs}

\* texts the parser rejects: a few fixed ones, and documents cut short
MalformedTexts ==
    {<<>>, <<"}">>, <<"f">>, <<"{", "}">>, <<"query", "{">>, <<"mutation", "{", "f">>,
     <<"fragment", "on", "T", "{", "f", "}">>, <<"{", "f", "}", "}">>}

QueryTexts == WellFormedTexts \cup MalformedTexts

----------------------------------------------------------------------------
(* utils.ts *)

\* a thrown value: an Error, or an AxiosError that may carry a response
\* (with its status) or the request that got no response
PlainError(message) ==
    [axios |-> FALSE, response |-> FALSE, status |-> 0, request |-> FALSE,
     message |-> message]

StatusError(status) ==
    [axios |-> TRUE, response |-> TRUE, status |-> status, request |-> TRUE,
     message |-> "Request failed with status code " \o ToString(status)]

NoResponseError(message) ==
    [axios |-> TRUE, response |-> FALSE, status |-> 0, request |-> TRUE,
     message |-> message]

\* sanitizeErrorMessage with String(error) in place of error.message
sanitizeErrorMessageString(error) ==
    IF error.axios /\ error.response
    THEN "Server responded with status " \o ToString(error.status) \o ": " \o error.message
    ELSE IF error.axios /\ error.request
         THEN "No response received: " \o error.message
         ELSE "Error: " \o error.message

\* sanitizeErrorMessage testing error.request before error.response
sanitizeErrorMessageRequestFirst(error) ==
    IF error.axios /\ error.request
    THEN "No response received: " \o error.message
    ELSE IF error.axios /\ error.response
         THEN "Server responded with status " \o ToString(error.status) \o ": "
              \o error.message
         ELSE error.message

sanitizeErrorMessage(error) ==
    IF error.axios /\ error.response
    THEN "Server responded with status " \o ToString(error.status) \o ": " \o error.message
    ELSE IF error.axios /\ error.request
         THEN "No response received: " \o error.message
         ELSE error.message

RECURSIVE JoinWith(_, _)
JoinWith(parts, sep) ==
    IF parts = <<>> THEN ""
    ELSE IF Len(parts) = 1 THEN parts[1]
    ELSE parts[1] \o sep \o JoinWith(Tail(parts), sep)

\* query.replace(/\s+/g, " ").trim(): the tokens, one space apart
formatGraphQLQuery(q) == JoinWith(q.tokens, " ")

\* isMutation looking at document.definitions[0] only
isMutationFirstDefinition(q) ==
    LET First(document) ==
            IF ~document.ok THEN FALSE
            ELSE /\ document.definitions[1].kind = "OperationDefinition"
                 /\ document.definitions[1].operation = "mutation"
    IN First(parse(q))

isMutation(q) ==
    LET Scan(document) ==
            IF ~document.ok THEN FALSE
            ELSE \E i \in 1..Len(document.definitions) :
                    /\ document.definitions[i].kind = "OperationDefinition"
                    /\ document.definitions[i].operation = "mutation"
    IN Scan(parse(q))

\* a + 1 on numbers
JsSucc(a) == IF a.nan THEN NaN ELSE Num(a.v + 1)

\* calculateQueryComplexity visiting the operations and not the fragments
calculateQueryComplexityOperations(q) ==
    LET Count(document) ==
            IF ~document.ok THEN JsSucc(config.maxQueryComplexity)
            ELSE Num(VisitDefinitions(SelectSeq(document.definitions,
                                                LAMBDA d : d.kind = "OperationDefinition")))
    IN Count(parse(q))

calculateQueryComplexity(q) ==
    LET Count(document) ==
            IF ~document.ok THEN JsSucc(config.maxQueryComplexity)
            ELSE Num(VisitDefinitions(document.definitions))
    IN Count(parse(q))

\* { ...a, ...b }: b's value wins on a key of both
Spread(a, b) ==
    [k \in DOMAIN a \cup DOMAIN b |-> IF k \in DOMAIN b THEN b[k] ELSE a[k]]

ProtocolHeaders ==
    [k \in {"Content-Type", "Accept"} |-> "application/json"]

\* the headers option with the two spreads exchanged
RequestHeadersDefaultsLast(headers) ==
    Spread(Spread(ProtocolHeaders, headers), config.headers)

\* the headers option of both axios.post calls
RequestHeaders(headers) == Spread(Spread(ProtocolHeaders, config.headers), headers)

\* a variables value: undefined, or a JSON value with its text (for a string,
\* the string itself)
VarUndefined == [type |-> "undefined", text |-> ""]
VarValue(type, text) == [type |-> type, text |-> text]

\* the value j that JSON.parse returned for the text of a variables string
DecodedVariables(j, text) == VarValue(j.kind, IF j.kind = "string" THEN j.str ELSE text)

NoRequest ==
    [endpoint |-> "", query |-> <<>>, variables |-> VarUndefined,
     headers |-> NoMembers, timeout |-> NaN]

Threw(error) == [threw |-> TRUE, error |-> error, request |-> NoRequest]
Posted(request) == [threw |-> FALSE, error |-> PlainError(""), request |-> request]

\* executeGraphQLQuery up to its await: the SyntaxError of JSON.parse, or
\* the request axios.post sends
executeGraphQLQuery(endpoint, query, variables, headers, timeout) ==
    LET Post(decoded) ==
            IF variables.type = "string" /\ ~decoded.ok
            THEN Threw(PlainError(decoded.message))
            ELSE Posted([endpoint |-> endpoint,
                         query |-> query.tokens,
                         variables |-> IF variables.type = "string"
                                       THEN DecodedVariables(decoded, variables.text)
                                       ELSE variables,
                         headers |-> RequestHeaders(headers),
                         timeout |-> timeout])
    IN Post(JSONParse(variables.text))

\* getIntrospectionQuery({ descriptions: true, inputValueDeprecation })
getIntrospectionQuery(inputValueDeprecation) ==
    <<"query", "IntrospectionQuery", "{", "__schema", "{", "description", "args">>
    \o (IF inputValueDeprecation THEN <<"(", "includeDeprecated", ":", "true", ")">> ELSE <<>>)
    \o <<"}", "}">>

\* fetchGraphQLSchema up to its await
fetchGraphQLSchema(endpoint, headers, includeDeprecated, timeout) ==
    Posted([endpoint |-> endpoint,
            query |-> getIntrospectionQuery(includeDeprecated),
            variables |-> VarUndefined,
            headers |-> RequestHeaders(headers),
            timeout |-> timeout])

----------------------------------------------------------------------------
(* index.ts: the tool declarations.  An inputSchema is the type of each    *)
(* declared property and the set of required ones.                         *)

GRAPHQL_QUERY_TOOL ==
    [name |-> "graphql_query",
     properties |-> [endpoint |-> "string", query |-> "string", variables |-> "object",
                     headers |-> "object", timeout |-> "number"],
     required |-> {"query"}]

GRAPHQL_INTROSPECT_TOOL ==
    [name |-> "graphql_introspect",
     properties |-> [endpoint |-> "string", headers |-> "object",
                     includeDeprecated |-> "boolean"],
     required |-> {}]

GRAPHQL_TOOLS == <<GRAPHQL_QUERY_TOOL, GRAPHQL_INTROSPECT_TOOL>>

\* the properties the CallTool handler destructures from the arguments
DestructuredArguments(name) ==
    IF name = "graphql_query"
    THEN {"query", "variables", "endpoint", "headers", "timeout", "allowMutations"}
    ELSE IF name = "graphql_introspect"
    THEN {"endpoint", "headers", "includeDeprecated"}
    ELSE {}

\* the inputs README.md lists for a tool
ReadmeInputs(name) ==
    IF name = "graphql_query"
    THEN {"query", "variables", "endpoint", "headers", "timeout", "allowMutations"}
    ELSE IF name = "graphql_introspect"
    THEN {"endpoint", "headers", "includeDeprecated"}
    ELSE {}

----------------------------------------------------------------------------
(* index.ts: the handlers *)

\* a loosely typed argument, written as its JavaScript literal
Truthy(lit) == lit \notin {"undefined", "null", "false", "0", "\"\""}

\* a parameter with a default: the default replaces undefined only
WithDefault(lit, default) == IF lit = "undefined" THEN default ELSE lit

NoResult == [content |-> <<>>, isError |-> FALSE]

\* { content: [{ type: "text", text }], isError: true }
ErrorResult(text) == [content |-> <<text>>, isError |-> TRUE]

\* { content: [...] }: no isError key, modelled as isError = FALSE
SuccessResult(content) == [content |-> content, isError |-> FALSE]

\* how far a handler got: it returned a result, it awaits the answer to the
\* request it sent, or it threw (its promise is rejected)
Returned(result) ==
    [done |-> TRUE, rejected |-> FALSE, result |-> result, request |-> NoRequest,
     calls |-> <<>>]
Awaiting(request) ==
    [done |-> FALSE, rejected |-> FALSE, result |-> NoResult, request |-> request,
     calls |-> <<>>]
Rejected ==
    [done |-> TRUE, rejected |-> TRUE, result |-> NoResult, request |-> NoRequest,
     calls |-> <<>>]

\* a step together with the functions the handler called on its way, in order
Traced(step, calls) == [step EXCEPT !.calls = calls]

MutationNotAllowed ==
    "Mutation operations are not allowed unless explicitly enabled with allowMutations=true"

\* the catch block of handleGraphQLQuery
QueryCatch(error) ==
    ErrorResult("Error executing GraphQL query: " \o sanitizeErrorMessage(error))

\* handleGraphQLQuery with the complexity gate ahead of the mutation gate
handleGraphQLQueryEntryComplexityFirst(query, variables, endpointArg, headersArg, timeoutArg, allowMutationsArg) ==
    LET endpoint == IF endpointArg.set THEN endpointArg.s ELSE config.endpoint
        headers == IF headersArg.set THEN headersArg.h ELSE NoMembers
        timeout == IF timeoutArg.set THEN timeoutArg.n ELSE config.timeout
        allowMutations == WithDefault(allowMutationsArg, "false")
        Execute(call) ==
            IF call.threw THEN Returned(QueryCatch(call.error)) ELSE Awaiting(call.request)
        \* !allowMutations && isMutation(query) calls isMutation only when
        \* allowMutations is falsy
        gated == <<"parse">> \o (IF Truthy(allowMutations) THEN <<>> ELSE <<"isMutation">>)
        counted == gated \o <<"calculateQueryComplexity">>
        processed == counted \o (IF variables.type = "string" THEN <<"JSON.parse">> ELSE <<>>)
        Body(document, mutation, queryComplexity, decoded) ==
            IF ~document.ok
            THEN Traced(Returned(QueryCatch(PlainError(document.message))), <<"parse">>)
            ELSE IF JsGreater(queryComplexity, config.maxQueryComplexity)
            THEN Traced(Returned(ErrorResult("Query complexity (" \o NumText(queryComplexity)
                                             \o ") exceeds maximum allowed ("
                                             \o NumText(config.maxQueryComplexity) \o ")")),
                        <<"parse", "calculateQueryComplexity">>)
            ELSE IF ~Truthy(allowMutations) /\ mutation
            THEN Traced(Returned(ErrorResult(MutationNotAllowed)), counted)
            ELSE IF variables.type = "string" /\ ~decoded.ok
            THEN Traced(Returned(ErrorResult("Failed to parse variables as JSON: "
                                             \o decoded.message)), processed)
            ELSE Traced(Execute(executeGraphQLQuery(
                                   endpoint, query,
                                   IF variables.type = "string"
                                   THEN DecodedVariables(decoded, variables.text)
                                   ELSE variables,
                                   headers, timeout)),
                        processed \o <<"executeGraphQLQuery">>)
    IN Body(parse(query), isMutation(query), calculateQueryComplexity(query),
            JSONParse(variables.text))

\* handleGraphQLQuery from its entry to its first await: the result it
\* returns without awaiting, or the request executeGraphQLQuery sends
handleGraphQLQueryEntry(query, variables, endpointArg, headersArg, timeoutArg, allowMutationsArg) ==
    LET endpoint == IF endpointArg.set THEN endpointArg.s ELSE config.endpoint
        headers == IF headersArg.set THEN headersArg.h ELSE NoMembers
        timeout == IF timeoutArg.set THEN timeoutArg.n ELSE config.timeout
        allowMutations == WithDefault(allowMutationsArg, "false")
        Execute(call) ==
            IF call.threw THEN Returned(QueryCatch(call.error)) ELSE Awaiting(call.request)
        \* !allowMutations && isMutation(query) calls isMutation only when
        \* allowMutations is falsy
        gated == <<"parse">> \o (IF Truthy(allowMutations) THEN <<>> ELSE <<"isMutation">>)
        counted == gated \o <<"calculateQueryComplexity">>
        processed == counted \o (IF variables.type = "string" THEN <<"JSON.parse">> ELSE <<>>)
        Body(document, mutation, queryComplexity, decoded) ==
            IF ~document.ok
            THEN Traced(Returned(QueryCatch(PlainError(document.message))), <<"parse">>)
            ELSE IF ~Truthy(allowMutations) /\ mutation
            THEN Traced(Returned(ErrorResult(MutationNotAllowed)), gated)
            ELSE IF JsGreater(queryComplexity, config.maxQueryComplexity)
            THEN Traced(Returned(ErrorResult("Query complexity (" \o NumText(queryComplexity)
                                             \o ") exceeds maximum allowed ("
                                             \o NumText(config.maxQueryComplexity) \o ")")),
                        counted)
            ELSE IF variables.type = "string" /\ ~decoded.ok
            THEN Traced(Returned(ErrorResult("Failed to parse variables as JSON: "
                                             \o decoded.message)), processed)
            ELSE Traced(Execute(executeGraphQLQuery(
                                   endpoint, query,
                                   IF variables.type = "string"
                                   THEN DecodedVariables(decoded, variables.text)
                                   ELSE variables,
                                   headers, timeout)),
                        processed \o <<"executeGraphQLQuery">>)
    IN Body(parse(query), isMutation(query), calculateQueryComplexity(query),
            JSONParse(variables.text))

\* the three backquotes that open and close a Markdown code block (a TLA+
\* string cannot hold a backquote)
Fence == "~~~"

\* JSON.stringify(h, null, 2) of a header object
RECURSIVE HeaderLines(_)
HeaderLines(h) ==
    IF DOMAIN h = {} THEN <<>>
    ELSE LET k == CHOOSE x \in DOMAIN h : TRUE
             rest == [x \in DOMAIN h \ {k} |-> h[x]]
         IN <<"  " \o Quote \o k \o Quote \o ": " \o Quote \o h[k] \o Quote>>
            \o HeaderLines(rest)

StringifyHeaders(h) ==
    IF DOMAIN h = {} THEN "{}" ELSE "{\n" \o JoinWith(HeaderLines(h), ",\n") \o "\n}"

\* the optional element of both success results
DefaultHeadersLine ==
    IF Cardinality(DOMAIN config.headers) > 0
    THEN <<"Using default headers: " \o StringifyHeaders(config.headers)>>
    ELSE <<>>

\* the error a rejected axios.post throws
AxiosFailure(outcome) ==
    IF outcome.kind = "status" THEN StatusError(outcome.status)
    ELSE NoResponseError(outcome.message)

\* the message of the first entry alone
errorMessagesFirst(messages) == IF messages = <<>> THEN "" ELSE messages[1]

\* response.data.errors.map((e) => e.message).join(", ")
errorMessages(messages) == JoinWith(messages, ", ")

\* handleGraphQLQuery from the settling of executeGraphQLQuery to its return
handleGraphQLQueryResume(query, endpoint, outcome, executionTime) ==
    IF outcome.kind # "response" THEN QueryCatch(AxiosFailure(outcome))
    ELSE IF outcome.body.type # "object"
    THEN QueryCatch(PlainError("Cannot read properties of " \o outcome.body.type
                               \o " (reading 'errors')"))
    ELSE IF outcome.body.errors.set
    THEN ErrorResult("GraphQL server returned errors: "
                     \o errorMessages(outcome.body.errors.messages))
    ELSE SuccessResult(
            <<"Query executed successfully in " \o ToString(executionTime)
              \o "ms at " \o endpoint>>
            \o DefaultHeadersLine
            \o <<"\nQuery:\n" \o Fence \o "graphql\n" \o formatGraphQLQuery(query)
                 \o "\n" \o Fence,
                 "\nResult:\n" \o Fence \o "json\n" \o outcome.body.data.json
                 \o "\n" \o Fence>>)

\* JSON.stringify(errors) of an errors array
StringifyErrors(messages) ==
    "[" \o JoinWith([i \in 1..Len(messages) |->
                        "{" \o Quote \o "message" \o Quote \o ":" \o Quote
                        \o messages[i] \o Quote \o "}"], ",") \o "]"

InvalidIntrospection ==
    "Invalid or incomplete introspection result. Ensure that you are passing "
    \o Quote \o "data" \o Quote \o " property of introspection response and no "
    \o Quote \o "errors" \o Quote \o " was returned alongside"

\* the catch block of handleGraphQLIntrospect
IntrospectCatch(error) ==
    ErrorResult("Error introspecting GraphQL schema: " \o sanitizeErrorMessage(error))

\* handleGraphQLIntrospect up to the await in fetchGraphQLSchema; it passes
\* no timeout, so fetchGraphQLSchema takes the configured one
handleGraphQLIntrospectEntry(endpointArg, headersArg, includeDeprecatedArg) ==
    LET endpoint == IF endpointArg.set THEN endpointArg.s ELSE config.endpoint
        headers == IF headersArg.set THEN headersArg.h ELSE NoMembers
        includeDeprecated == WithDefault(includeDeprecatedArg, "true")
    IN Traced(Awaiting(fetchGraphQLSchema(endpoint, headers, Truthy(includeDeprecated),
                                          config.timeout).request),
              <<"fetchGraphQLSchema">>)

\* the same with fetchGraphQLSchema not looking at response.data.errors
handleGraphQLIntrospectResumeErrorsIgnored(endpoint, outcome) ==
    IF outcome.kind # "response" THEN IntrospectCatch(AxiosFailure(outcome))
    ELSE IF outcome.body.type # "object"
    THEN IntrospectCatch(PlainError("Cannot read properties of " \o outcome.body.type
                                    \o " (reading 'data')"))
    ELSE IF ~outcome.body.data.schema
    THEN IntrospectCatch(PlainError(InvalidIntrospection))
    ELSE SuccessResult(
            <<"Schema introspection from " \o endpoint \o " completed successfully">>
            \o DefaultHeadersLine
            \o <<"\nGraphQL Schema:\n" \o Fence \o "graphql\n" \o outcome.body.data.sdl
                 \o "\n" \o Fence>>)

\* fetchGraphQLSchema after its await, and handleGraphQLIntrospect to its return
handleGraphQLIntrospectResume(endpoint, outcome) ==
    IF outcome.kind # "response" THEN IntrospectCatch(AxiosFailure(outcome))
    ELSE IF outcome.body.type # "object"
    THEN IntrospectCatch(PlainError("Cannot read properties of " \o outcome.body.type
                                    \o " (reading 'errors')"))
    ELSE IF outcome.body.errors.set
    THEN IntrospectCatch(PlainError("GraphQL server returned errors: "
                                    \o StringifyErrors(outcome.body.errors.messages)))
    ELSE IF ~outcome.body.data.schema
    THEN IntrospectCatch(PlainError(InvalidIntrospection))
    ELSE SuccessResult(
            <<"Schema introspection from " \o endpoint \o " completed successfully">>
            \o DefaultHeadersLine
            \o <<"\nGraphQL Schema:\n" \o Fence \o "graphql\n" \o outcome.body.data.sdl
                 \o "\n" \o Fence>>)

----------------------------------------------------------------------------
(* index.ts: the CallToolRequestSchema handler *)

\* the handler without its catch block: the error leaves the handler
CallToolCatchMissing(message) == Rejected

\* the catch block of the handler; error.message of the TypeError that
\* destructuring undefined throws
CallToolCatch(message) == Returned(ErrorResult("Error: " \o message))

DestructureError(property) ==
    "Cannot destructure property '" \o property
    \o "' of 'request.params.arguments' as it is undefined."

UnknownTool(name) == Returned(ErrorResult("Unknown tool: " \o name))

\* the handler from the arrival of a tools/call request to its first await
CallToolEntry(name, args) ==
    IF name = "graphql_query" THEN
        IF ~args.bag THEN CallToolCatch(DestructureError("query"))
        ELSE handleGraphQLQueryEntry(args.query, args.variables, args.endpoint,
                                     args.headers, args.timeout, args.allowMutations)
    ELSE IF name = "graphql_introspect" THEN
        IF ~args.bag THEN CallToolCatch(DestructureError("endpoint"))
        ELSE handleGraphQLIntrospectEntry(args.endpoint, args.headers,
                                          args.includeDeprecated)
    ELSE UnknownTool(name)

\* the handler from the settling of its HTTP call to its return
CallToolResume(name, args, request, outcome, executionTime) ==
    IF name = "graphql_query"
    THEN handleGraphQLQueryResume(args.query, request.endpoint, outcome, executionTime)
    ELSE handleGraphQLIntrospectResume(request.endpoint, outcome)

----------------------------------------------------------------------------
(* Inputs *)

Flags ==
    [endpoint : {Absent, Str("http://flag:4000/graphql")},
     headers : {Absent, Str("{\"Authorization\":\"Bearer default\"}"), Str("{bad")},
     timeout : {NoNum, SomeNum(5000)},
     maxComplexity : {NoNum, SomeNum(2)}]

Environments ==
    [ENDPOINT : {Absent, Str("http://env:4000/graphql")},
     TIMEOUT : {Absent, Str("1000"), Str("soon")},
     MAX_DEPTH : {Absent, Str("1"), Str("deep")}]

NoFlags == [endpoint |-> Absent, headers |-> Absent, timeout |-> NoNum, maxComplexity |-> NoNum]
NoEnvironment == [ENDPOINT |-> Absent, TIMEOUT |-> Absent, MAX_DEPTH |-> Absent]

\* the start-ups the serving model runs from: nothing supplied, the README's
\* flags, and the environment alone
ServingStartups ==
    {<<NoFlags, NoEnvironment>>,
     <<[endpoint |-> Str("http://flag:4000/graphql"),
        headers |-> Str("{\"Authorization\":\"Bearer default\"}"),
        timeout |-> SomeNum(5000), maxComplexity |-> SomeNum(2)], NoEnvironment>>,
     <<NoFlags, [ENDPOINT |-> Absent, TIMEOUT |-> Str("1000"), MAX_DEPTH |-> Str("1")]>>}

NoHeadersArg == [set |-> FALSE, h |-> NoMembers]
HeadersArg(h) == [set |-> TRUE, h |-> h]

\* endpoint, headers and timeout as one tool call supplies them
TransportArgs ==
    {[endpoint |-> Absent, headers |-> NoHeadersArg, timeout |-> NoNum],
     [endpoint |-> Absent, headers |-> HeadersArg([k \in {"Authorization"} |-> "Bearer request"]),
      timeout |-> NoNum],
     [endpoint |-> Str("http://other/graphql"),
      headers |-> HeadersArg([k \in {"X-Trace", "Content-Type"} |->
                                IF k = "X-Trace" THEN "on" ELSE "text/plain"]),
      timeout |-> SomeNum(1000)]}

QueryArgs == {QueryString(t) : t \in QueryTexts} \cup {QueryUndefined}

VariablesArgs ==
    {VarUndefined, VarValue("object", "{\"id\":\"1\"}")}
    \cup {VarValue("string", t) :
            t \in {"{\"id\":\"1\"}", "{bad", "", "[1]", "5", "null", "\"{}\"", "\"abc\""}}

AllowMutationsArgs == {"undefined", "true", "false", "null", "\"false\"", "\"no\"", "0", "1"}

IncludeDeprecatedArgs == {"undefined", "true", "false"}

NoArgs ==
    [bag |-> FALSE, query |-> QueryUndefined, variables |-> VarUndefined,
     endpoint |-> Absent, headers |-> NoHeadersArg, timeout |-> NoNum,
     allowMutations |-> "undefined", includeDeprecated |-> "undefined"]

\* the queries that are sent with transport arguments of their own
TransportQueries ==
    {QueryString(t) : t \in {<<"{", "f", "}">>, <<"mutation", "{", "f", "}">>, <<"}">>}}

\* every query with every variables and allowMutations, and every
\* combination of transport arguments with the queries above
QueryToolArgs ==
    {[bag |-> TRUE, query |-> q, variables |-> v, endpoint |-> t.endpoint,
      headers |-> t.headers, timeout |-> t.timeout, allowMutations |-> a,
      includeDeprecated |-> "undefined"] :
        q \in QueryArgs, v \in VariablesArgs, a \in AllowMutationsArgs,
        t \in {x \in TransportArgs : ~x.endpoint.set /\ ~x.headers.set}}
    \cup
    {[bag |-> TRUE, query |-> q, variables |-> v, endpoint |-> t.endpoint,
      headers |-> t.headers, timeout |-> t.timeout, allowMutations |-> a,
      includeDeprecated |-> "undefined"] :
        q \in TransportQueries, v \in VariablesArgs, a \in AllowMutationsArgs,
        t \in TransportArgs}

IntrospectToolArgs ==
    {[bag |-> TRUE, query |-> QueryUndefined, variables |-> VarUndefined,
      endpoint |-> t.endpoint, headers |-> t.headers, timeout |-> NoNum,
      allowMutations |-> "undefined", includeDeprecated |-> d] :
        t \in TransportArgs, d \in IncludeDeprecatedArgs}

ToolNames == {"graphql_query", "graphql_introspect", "graphql_mutate", ""}

ToolArgs(name) ==
    {NoArgs} \cup (IF name = "graphql_query" THEN QueryToolArgs
                   ELSE IF name = "graphql_introspect" THEN IntrospectToolArgs
                   ELSE {})

\* what the endpoint can answer
ErrorMessages == {"field X not found", "boom"}

RECURSIVE MessageLists(_)
MessageLists(n) ==
    IF n = 0 THEN {<<>>}
    ELSE MessageLists(n - 1)
         \cup {Append(l, m) : l \in {x \in MessageLists(n - 1) : Len(x) = n - 1},
                              m \in ErrorMessages}

NoErrors == [set |-> FALSE, messages |-> <<>>]
NoData == [set |-> FALSE, json |-> "undefined", schema |-> FALSE, sdl |-> ""]
PlainData ==
    [set |-> TRUE, json |-> "{\n  \"__typename\": \"Query\"\n}", schema |-> FALSE, sdl |-> ""]
SchemaData ==
    [set |-> TRUE, json |-> "{\n  \"__schema\": {}\n}", schema |-> TRUE,
     sdl |-> "type Query {\n  hello: String\n}"]

Bodies ==
    {[type |-> "null", errors |-> NoErrors, data |-> NoData]}
    \cup {[type |-> "object", errors |-> NoErrors, data |-> d] :
            d \in {NoData, PlainData, SchemaData}}
    \cup {[type |-> "object", errors |-> [set |-> TRUE, messages |-> l], data |-> d] :
            l \in MessageLists(MaxErrors), d \in {NoData, PlainData}}

NoBody == [type |-> "null", errors |-> NoErrors, data |-> NoData]

ErrorStatuses == {404, 500}

TransportFailures == {"connect ECONNREFUSED 127.0.0.1:4000", "getaddrinfo ENOTFOUND other"}

----------------------------------------------------------------------------
(* State machine *)

\* the invocation in service; concurrent invocations use further slots
Slots == {1}

\* what an awaited request settled with: "response" (2xx, with its body),
\* "status" (another status), "none" (no response), "pending" before that
Outcome(kind, status, body, message) ==
    [kind |-> kind, status |-> status, body |-> body, message |-> message]

NoOutcome == Outcome("pending", 0, NoBody, "")

IdleInvocation ==
    [pc |-> "idle", name |-> "", args |-> NoArgs, requests |-> 0,
     request |-> NoRequest, outcome |-> NoOutcome, result |-> NoResult, calls |-> <<>>,
     overlaps |-> {}]

\* the invocation of tool name after the step its handler made
Started(name, args, step) ==
    [pc |-> IF step.rejected THEN "rejected"
            ELSE IF step.done THEN "done" ELSE "awaiting",
     name |-> name, args |-> args,
     requests |-> IF step.done THEN 0 ELSE 1,
     request |-> step.request, outcome |-> NoOutcome,
     result |-> step.result, calls |-> step.calls, overlaps |-> {}]

\* the slots of concurrent invocations
ConcurrentSlots == {1, 2}

InitOn(startups, slots) ==
    /\ \E s \in startups : argv = s[1] /\ env = s[2]
    /\ config = NoConfig
    /\ phase = "loading"
    /\ exitCause = "none"
    /\ inv = [i \in slots |-> IdleInvocation]
    /\ listed = <<>>

InitWith(startups) == InitOn(startups, Slots)

Init == InitWith(ServingStartups)

\* config.ts is loaded: export const config = new Config()
LoadConfig ==
    /\ phase = "loading"
    /\ config' = NewConfig(argv, env)
    /\ phase' = "starting"
    /\ UNCHANGED <<argv, env, exitCause, inv, listed>>

\* runServer: server.connect(transport) resolves
Connect ==
    /\ phase = "starting"
    /\ phase' = "serving"
    /\ UNCHANGED <<argv, env, config, exitCause, inv, listed>>

\* runServer: server.connect(transport) rejects, process.exit(1)
ConnectFails ==
    /\ phase = "starting"
    /\ phase' = "exited"
    /\ exitCause' = "transport"
    /\ UNCHANGED <<argv, env, config, inv, listed>>

\* a tools/list request arrives and is answered
ListTools ==
    /\ phase = "serving"
    /\ listed' = GRAPHQL_TOOLS
    /\ UNCHANGED <<argv, env, config, phase, exitCause, inv>>

\* the server is connected and slot i is free for a request
Ready(i) == phase = "serving" /\ inv[i].pc = "idle"

\* the invocations that await their request at this moment, i aside
InFlight(i) == {j \in DOMAIN inv \ {i} : inv[j].pc = "awaiting"}

\* Call with a handler that merges the request's headers into DEFAULT_HEADERS
\* (Object.assign) where the code spreads both into a new object
CallAssigningHeaders(i, name, args) ==
    /\ inv' = [inv EXCEPT ![i] = [Started(name, args, CallToolEntry(name, args))
                                    EXCEPT !.overlaps = InFlight(i)]]
    /\ config' = [config EXCEPT !.headers = Spread(config.headers, args.headers.h)]
    /\ UNCHANGED <<argv, env, phase, exitCause, listed>>

\* the handler of the tools/call request for tool name with arguments args
\* runs to its first await; overlaps records the invocations in flight then
Call(i, name, args) ==
    /\ inv' = [inv EXCEPT ![i] = [Started(name, args, CallToolEntry(name, args))
                                    EXCEPT !.overlaps = InFlight(i)]]
    /\ UNCHANGED <<argv, env, config, phase, exitCause, listed>>

\* a tools/call request of any host arrives
CallTool(i) ==
    /\ Ready(i)
    /\ \E name \in ToolNames : \E args \in ToolArgs(name) : Call(i, name, args)

\* the properties a call's argument bag carries
SuppliedProperties(args) ==
    {p \in {"query"} : args.query.type # "undefined"}
    \cup {p \in {"variables"} : args.variables.type # "undefined"}
    \cup {p \in {"endpoint"} : args.endpoint.set}
    \cup {p \in {"headers"} : args.headers.set}
    \cup {p \in {"timeout"} : args.timeout.set}
    \cup {p \in {"allowMutations"} : args.allowMutations # "undefined"}
    \cup {p \in {"includeDeprecated"} : args.includeDeprecated # "undefined"}

\* a tools/call request of a host that goes by the tools/list response: a
\* listed tool, the required properties, and declared properties only
CallListedTool(i) ==
    /\ Ready(i)
    /\ \E k \in 1..Len(listed) : \E args \in ToolArgs(listed[k].name) :
        /\ args.bag
        /\ listed[k].required \subseteq SuppliedProperties(args)
        /\ SuppliedProperties(args) \subseteq DOMAIN listed[k].properties
        /\ Call(i, listed[k].name, args)

\* the awaited axios.post settles with outcome and the handler runs to its end
Settle(i, outcome, executionTime) ==
    /\ phase = "serving"
    /\ inv[i].pc = "awaiting"
    /\ inv' = [inv EXCEPT ![i].pc = "done",
                          ![i].outcome = outcome,
                          ![i].result = CallToolResume(inv[i].name, inv[i].args,
                                                       inv[i].request, outcome,
                                                       executionTime)]
    /\ UNCHANGED <<argv, env, config, phase, exitCause, listed>>

\* the endpoint answers with a 2xx status and a body
HttpResponse(i) ==
    \E body \in Bodies : \E t \in 0..MaxElapsed :
        Settle(i, Outcome("response", 200, body, ""), t)

\* the endpoint answers with another status: validateStatus rejects
HttpErrorStatus(i) ==
    \E status \in ErrorStatuses :
        Settle(i, Outcome("status", status, NoBody, ""), 0)

\* the request was sent and no response arrived
HttpNoResponse(i) ==
    \E message \in TransportFailures :
        Settle(i, Outcome("none", 0, NoBody, message), 0)

\* the timeout of the request expires: axios arms it only for a truthy timeout
HttpTimeout(i) ==
    /\ inv[i].pc = "awaiting"
    /\ ~inv[i].request.timeout.nan /\ inv[i].request.timeout.v # 0
    /\ Settle(i, Outcome("none", 0, NoBody,
                          "timeout of " \o NumText(inv[i].request.timeout)
                          \o "ms exceeded"), 0)

\* the result goes back to the host and the slot is free again
Deliver(i) ==
    /\ inv[i].pc = "done"
    /\ inv' = [inv EXCEPT ![i] = IdleInvocation]
    /\ UNCHANGED <<argv, env, config, phase, exitCause, listed>>

Next ==
    \/ LoadConfig
    \/ Connect
    \/ ConnectFails
    \/ \E i \in Slots :
        \/ CallTool(i)
        \/ HttpResponse(i)
        \/ HttpErrorStatus(i)
        \/ HttpNoResponse(i)
        \/ HttpTimeout(i)
        \/ Deliver(i)

Spec == Init /\ [][Next]_vars

\* a host that lists the tools and then calls them as they are declared
NextListed ==
    \/ LoadConfig
    \/ Connect
    \/ ConnectFails
    \/ ListTools
    \/ \E i \in Slots :
        \/ CallListedTool(i)
        \/ HttpResponse(i)
        \/ HttpErrorStatus(i)
        \/ HttpNoResponse(i)
        \/ HttpTimeout(i)
        \/ Deliver(i)

SpecListed == Init /\ [][NextListed]_vars

\* the calls of the concurrent hosts: both tools, with and without transport
\* arguments of their own, and a call that returns without a request
ConcurrentCalls ==
    LET Query(text, t, a) ==
            <<"graphql_query",
              [NoArgs EXCEPT !.bag = TRUE, !.query = QueryString(text),
                             !.endpoint = t.endpoint, !.headers = t.headers,
                             !.timeout = t.timeout, !.allowMutations = a]>>
        Introspect(t) ==
            <<"graphql_introspect",
              [NoArgs EXCEPT !.bag = TRUE, !.endpoint = t.endpoint, !.headers = t.headers]>>
        plain == CHOOSE t \in TransportArgs : ~t.endpoint.set /\ ~t.headers.set
        authorized == CHOOSE t \in TransportArgs : ~t.endpoint.set /\ t.headers.set
        elsewhere == CHOOSE t \in TransportArgs : t.endpoint.set
    IN {Query(<<"{", "f", "}">>, plain, "undefined"),
        Query(<<"mutation", "{", "f", "}">>, elsewhere, "true"),
        Query(<<"mutation", "{", "f", "}">>, plain, "undefined"),
        Introspect(authorized)}

\* a tools/call request arrives while others may be in flight
CallConcurrently(i) ==
    /\ Ready(i)
    /\ \E c \in ConcurrentCalls : Call(i, c[1], c[2])

\* several invocations in flight, interleaved at their awaits and settled in
\* any order
NextConcurrent ==
    \/ LoadConfig
    \/ Connect
    \/ ConnectFails
    \/ \E i \in ConcurrentSlots :
        \/ CallConcurrently(i)
        \/ HttpResponse(i)
        \/ HttpErrorStatus(i)
        \/ HttpNoResponse(i)
        \/ HttpTimeout(i)
        \/ Deliver(i)

InitConcurrent == InitOn(ServingStartups, ConcurrentSlots)

SpecConcurrent == InitConcurrent /\ [][NextConcurrent]_vars

\* an endpoint that never answers: only the timer axios armed can end an
\* awaited request.  A timer that is armed does fire (the event loop runs
\* it), and a result that is ready is written to the transport
NextSilent ==
    \/ LoadConfig
    \/ Connect
    \/ ConnectFails
    \/ \E i \in Slots :
        \/ CallTool(i)
        \/ HttpTimeout(i)
        \/ Deliver(i)

SpecSilent ==
    /\ Init
    /\ [][NextSilent]_vars
    /\ \A i \in Slots : WF_vars(HttpTimeout(i)) /\ WF_vars(Deliver(i))

\* the start-up alone, over every combination of flags and environment
InitConfig == InitWith(Flags \X Environments)

NextConfig == LoadConfig

SpecConfig == InitConfig /\ [][NextConfig]_vars

----------------------------------------------------------------------------
(* Properties *)

\* an invocation of graphql_query with an argument bag and a query string
QueryCall(i) ==
    /\ inv[i].pc # "idle"
    /\ inv[i].name = "graphql_query"
    /\ inv[i].args.bag
    /\ inv[i].args.query.type = "string"

QueryTokens(i) == inv[i].args.query.tokens

\* the grammar's verdict on a text, and its diagnostic
ParserRejects(t) == ~ParseDefinitions(t, 1, <<>>).ok
ParserDiagnostic(t) == ParseDefinitions(t, 1, <<>>).message

\* braces open before token i
RECURSIVE Depth(_, _)
Depth(t, i) ==
    IF i <= 1 THEN 0
    ELSE Depth(t, i - 1) + (IF t[i - 1] = "{" THEN 1 ELSE IF t[i - 1] = "}" THEN -1 ELSE 0)

\* the text has a top-level operation that starts with the keyword mutation
MutationAtTopLevel(t) ==
    \E j \in 1..Len(t) : t[j] = "mutation" /\ Depth(t, j) = 0 /\ (j = 1 \/ t[j - 1] = "}")

\* the Name tokens inside braces: the Field nodes of a parseable text
FieldCount(t) == Cardinality({j \in 1..Len(t) : t[j] \in Names /\ Depth(t, j) >= 1})

ReturnedWithoutRequest(i, result) ==
    /\ inv[i].pc = "done"
    /\ inv[i].requests = 0
    /\ inv[i].result = result

\* C1: a query string the parser rejects gives isError = true with the single
\*     text "Error executing GraphQL query: " and the parser's diagnostic, and
\*     no HTTP request, whatever the other arguments are
C1_SyntaxErrorReported ==
    \A i \in Slots :
        QueryCall(i) /\ ParserRejects(QueryTokens(i))
        => ReturnedWithoutRequest(i,
              [content |-> <<"Error executing GraphQL query: "
                             \o ParserDiagnostic(QueryTokens(i))>>,
               isError |-> TRUE])

C1_Witness ==
    \E i \in Slots :
        /\ QueryCall(i) /\ ParserRejects(QueryTokens(i))
        /\ inv[i].args.allowMutations = "true"
        /\ inv[i].args.variables.type = "string"
        /\ inv[i].result.isError

\* C2: a parseable document with a top-level mutation, with allowMutations
\*     false or absent, gives the mutation-not-allowed error and no HTTP request
C2_MutationRejected ==
    \A i \in Slots :
        /\ QueryCall(i) /\ ~ParserRejects(QueryTokens(i))
        /\ MutationAtTopLevel(QueryTokens(i))
        /\ inv[i].args.allowMutations \in {"false", "undefined"}
        => ReturnedWithoutRequest(i, [content |-> <<MutationNotAllowed>>, isError |-> TRUE])

C2_Witness ==
    \E i \in Slots :
        /\ QueryCall(i) /\ ~ParserRejects(QueryTokens(i))
        /\ MutationAtTopLevel(QueryTokens(i)) /\ QueryTokens(i)[1] # "mutation"
        /\ inv[i].args.allowMutations = "undefined"
        /\ inv[i].result = [content |-> <<MutationNotAllowed>>, isError |-> TRUE]

\* C3 as claimed: every allowMutations other than the boolean true (absent,
\*     false, null, "false", "no", a number) keeps a mutation from being sent
C3_OnlyTrueOpensGate ==
    \A i \in Slots :
        /\ QueryCall(i) /\ ~ParserRejects(QueryTokens(i))
        /\ MutationAtTopLevel(QueryTokens(i))
        /\ inv[i].args.allowMutations # "true"
        => ReturnedWithoutRequest(i, [content |-> <<MutationNotAllowed>>, isError |-> TRUE])

ComplexityText(n, max) ==
    "Query complexity (" \o ToString(n) \o ") exceeds maximum allowed ("
    \o ToString(max) \o ")"

\* C4: a parseable query past the mutation gate whose count of Field nodes is
\*     strictly greater than the ceiling gives the complexity error naming
\*     both numbers and no HTTP request; a count at most the ceiling is not
\*     rejected by this gate
C4_ComplexityGate ==
    \A i \in Slots :
        /\ QueryCall(i) /\ ~ParserRejects(QueryTokens(i))
        /\ inv[i].result # [content |-> <<MutationNotAllowed>>, isError |-> TRUE]
        /\ ~config.maxQueryComplexity.nan
        => LET n == FieldCount(QueryTokens(i))
               max == config.maxQueryComplexity.v
           IN IF n > max
              THEN ReturnedWithoutRequest(i,
                      [content |-> <<ComplexityText(n, max)>>, isError |-> TRUE])
              ELSE \A k \in 1..Len(inv[i].result.content) :
                      ~StartsWith(inv[i].result.content[k], "Query complexity")

C4_Witness ==
    \E i \in Slots :
        /\ QueryCall(i)
        /\ FieldCount(QueryTokens(i)) = 3
        /\ QueryTokens(i)[1] = "fragment"
        /\ inv[i].result = [content |-> <<ComplexityText(3, 2)>>, isError |-> TRUE]

\* C5 as claimed: with neither flag nor environment variable the
\*     configuration holds http://localhost:4000/graphql, 30000, 100 and no
\*     headers; the environment variable alone is used; a flag overrides both
C5_ConfigurationDefaults ==
    phase # "loading" =>
        /\ config.endpoint =
              IF argv.endpoint.set THEN argv.endpoint.s
              ELSE IF env.ENDPOINT.set THEN env.ENDPOINT.s
              ELSE "http://localhost:4000/graphql"
        /\ config.timeout =
              IF argv.timeout.set THEN argv.timeout.n
              ELSE IF env.TIMEOUT.set THEN JsNumber(env.TIMEOUT)
              ELSE Num(30000)
        /\ config.maxQueryComplexity =
              IF argv.maxComplexity.set THEN argv.maxComplexity.n
              ELSE IF env.MAX_DEPTH.set THEN JsNumber(env.MAX_DEPTH)
              ELSE Num(100)
        /\ (~argv.headers.set => config.headers = NoMembers)

\* C6 as claimed: the variables of a request graphql_query sends are a JSON
\*     object or absent, and a variables string that is not JSON gives an
\*     error result and no request
C6_VariablesObjectOrAbsent ==
    \A i \in Slots :
        QueryCall(i) =>
            /\ inv[i].requests > 0 => inv[i].request.variables.type \in {"object", "undefined"}
            /\ inv[i].args.variables.type = "string" /\ ~JSONParse(inv[i].args.variables.text).ok
               => inv[i].pc = "done" /\ inv[i].requests = 0 /\ inv[i].result.isError

\* m[1], ", ", m[2], ", ", ... m[n], built from the left
RECURSIVE CommaSeparated(_, _)
CommaSeparated(m, n) ==
    IF n = 0 THEN ""
    ELSE IF n = 1 THEN m[1]
    ELSE CommaSeparated(m, n - 1) \o ", " \o m[n]

\* C7: a 2xx response whose body carries an errors array gives isError = true
\*     with the single text "GraphQL server returned errors: " and every
\*     entry's message in order joined with ", "; no success line, no data
C7_GraphQLErrorsReported ==
    \A i \in Slots :
        /\ inv[i].pc = "done" /\ inv[i].name = "graphql_query"
        /\ inv[i].outcome.kind = "response"
        /\ inv[i].outcome.body.type = "object"
        /\ inv[i].outcome.body.errors.set
        => LET m == inv[i].outcome.body.errors.messages
           IN inv[i].result =
                [content |-> <<"GraphQL server returned errors: "
                               \o CommaSeparated(m, Len(m))>>,
                 isError |-> TRUE]

C7_Witness ==
    \E i \in Slots :
        /\ inv[i].pc = "done" /\ inv[i].name = "graphql_query"
        /\ inv[i].outcome.kind = "response"
        /\ inv[i].outcome.body.errors.messages = <<"boom", "field X not found">>
        /\ inv[i].outcome.body.data.set
        /\ inv[i].result.content = <<"GraphQL server returned errors: boom, field X not found">>

\* C8: a non-2xx status gives an error result whose text contains "Server
\*     responded with status <code>", no response gives one whose text
\*     contains "No response received"; neither text contains the other
\*     phrase, and neither is a "GraphQL server returned errors" result
C8_TransportFailuresDistinguished ==
    \A i \in Slots :
        inv[i].pc = "done" /\ inv[i].outcome.kind \in {"status", "none"}
        => /\ inv[i].result.isError
           /\ Len(inv[i].result.content) = 1
           /\ LET text == inv[i].result.content[1]
                  status == "Server responded with status "
                            \o ToString(inv[i].outcome.status)
              IN /\ Contains(text, status) <=> inv[i].outcome.kind = "status"
                 /\ Contains(text, "Server responded with status")
                    <=> inv[i].outcome.kind = "status"
                 /\ Contains(text, "No response received") <=> inv[i].outcome.kind = "none"
                 /\ ~Contains(text, "GraphQL server returned errors")

C8_Witness ==
    \E i \in Slots :
        /\ inv[i].pc = "done" /\ inv[i].name = "graphql_query"
        /\ inv[i].outcome.kind = "status" /\ inv[i].outcome.status = 500
        /\ inv[i].result.isError
        /\ Contains(inv[i].result.content[1], "Server responded with status 500")

\* C9: in the request of either tool, a header key of both the configured
\*     defaults and the request's headers carries the request's value, a key
\*     of the defaults alone the default value, a key of the request alone
\*     the request's value
C9_HeaderMerge ==
    \A i \in Slots :
        inv[i].requests > 0 =>
            LET defaults == config.headers
                supplied == inv[i].args.headers.h
                sent == inv[i].request.headers
            IN \A k \in DOMAIN defaults \cup DOMAIN supplied :
                /\ k \in DOMAIN sent
                /\ sent[k] = IF k \in DOMAIN supplied THEN supplied[k] ELSE defaults[k]

C9_Witness ==
    \E i \in Slots :
        /\ inv[i].requests > 0
        /\ \E k \in DOMAIN config.headers \cap DOMAIN inv[i].args.headers.h :
            /\ config.headers[k] # inv[i].args.headers.h[k]
            /\ inv[i].request.headers[k] = inv[i].args.headers.h[k]

\* C10: every tool call ends in a result {content, isError} and none throws or
\*      ends the process: an unknown name gives "Unknown tool: <name>", a
\*      failure escaping a handler gives "Error: <message>", and the process
\*      exits only when the transport cannot be established at start-up
C10_DispatchTotal ==
    /\ [](\A i \in Slots :
            /\ inv[i].pc \in {"idle", "awaiting", "done"}
            /\ inv[i].pc = "done" =>
                /\ Len(inv[i].result.content) >= 1
                /\ inv[i].name \notin {"graphql_query", "graphql_introspect"}
                   => inv[i].result = [content |-> <<"Unknown tool: " \o inv[i].name>>,
                                       isError |-> TRUE]
                /\ inv[i].name \in {"graphql_query", "graphql_introspect"} /\ ~inv[i].args.bag
                   => /\ inv[i].result.isError
                      /\ Len(inv[i].result.content) = 1
                      /\ StartsWith(inv[i].result.content[1], "Error: "))
    /\ [](phase = "exited" => exitCause = "transport")
    /\ [][phase = "serving" => phase' = "serving"]_vars

C10_Witness ==
    \E i \in Slots :
        /\ inv[i].pc = "done"
        /\ inv[i].name = "graphql_query" /\ ~inv[i].args.bag
        /\ inv[i].result.isError
        /\ StartsWith(inv[i].result.content[1], "Error: Cannot destructure")

\* C11 as claimed: the declaration tools/list advertises for graphql_query
\*      requires query and declares every argument the dispatcher reads and
\*      README.md documents, allowMutations among them
C11_QueryInputsDeclared ==
    \A k \in 1..Len(listed) :
        listed[k].name = "graphql_query" =>
            /\ listed[k].required = {"query"}
            /\ DestructuredArguments("graphql_query") \subseteq DOMAIN listed[k].properties
            /\ ReadmeInputs("graphql_query") \subseteq DOMAIN listed[k].properties
            /\ "allowMutations" \in DOMAIN listed[k].properties

\* a finished invocation of graphql_introspect with an argument bag
IntrospectDone(i) ==
    /\ inv[i].pc = "done"
    /\ inv[i].name = "graphql_introspect"
    /\ inv[i].args.bag

\* the schema fetch failed: no 2xx response, or a body that carries errors
\* or no introspection data
FetchFailed(outcome) ==
    \/ outcome.kind # "response"
    \/ outcome.body.type # "object"
    \/ outcome.body.errors.set
    \/ ~outcome.body.data.schema

\* C12: a graphql_introspect whose schema fetch fails (transport failure,
\*      non-2xx status, errors array on a 2xx response, no usable
\*      introspection data) gives isError = true with the single text "Error
\*      introspecting GraphQL schema: " and the sanitized message; otherwise
\*      the result has no error flag and holds the status line, the
\*      default-headers line exactly when a default header is configured, and
\*      the SDL in a graphql code fence
C12_IntrospectResult ==
    \A i \in Slots :
        IntrospectDone(i) =>
            LET outcome == inv[i].outcome
                content == inv[i].result.content
                n == Len(content)
            IN IF FetchFailed(outcome)
               THEN /\ inv[i].result.isError
                    /\ n = 1
                    /\ StartsWith(content[1], "Error introspecting GraphQL schema: ")
                    /\ outcome.kind = "status" =>
                          content[1] = "Error introspecting GraphQL schema: Server responded"
                                       \o " with status " \o ToString(outcome.status)
                                       \o ": Request failed with status code "
                                       \o ToString(outcome.status)
                    /\ outcome.kind = "none" =>
                          content[1] = "Error introspecting GraphQL schema: No response"
                                       \o " received: " \o outcome.message
                    /\ outcome.kind = "response" /\ outcome.body.type = "object"
                       /\ outcome.body.errors.set =>
                          StartsWith(content[1], "Error introspecting GraphQL schema: "
                                                 \o "GraphQL server returned errors: [")
               ELSE /\ ~inv[i].result.isError
                    /\ n = IF DOMAIN config.headers = {} THEN 2 ELSE 3
                    /\ content[1] = "Schema introspection from " \o inv[i].request.endpoint
                                    \o " completed successfully"
                    /\ n = 3 => StartsWith(content[2], "Using default headers: {")
                    /\ content[n] = "\nGraphQL Schema:\n" \o Fence \o "graphql\n"
                                    \o outcome.body.data.sdl \o "\n" \o Fence

C12_Witness ==
    \E i \in Slots :
        /\ IntrospectDone(i)
        /\ ~FetchFailed(inv[i].outcome)
        /\ DOMAIN config.headers # {}
        /\ Len(inv[i].result.content) = 3
        /\ ~inv[i].result.isError

\* C13 as claimed: whatever the configured and the request's headers are, the
\*      request on the wire carries Content-Type = application/json and
\*      Accept = application/json
C13_ProtocolHeadersWin ==
    \A i \in Slots :
        inv[i].requests > 0 =>
            /\ "Content-Type" \in DOMAIN inv[i].request.headers
            /\ "Accept" \in DOMAIN inv[i].request.headers
            /\ inv[i].request.headers["Content-Type"] = "application/json"
            /\ inv[i].request.headers["Accept"] = "application/json"

\* the order in which handleGraphQLQuery is to make its calls
CheckOrder ==
    <<"parse", "isMutation", "calculateQueryComplexity", "JSON.parse", "executeGraphQLQuery">>

Rank(c) == CHOOSE k \in 1..Len(CheckOrder) : CheckOrder[k] = c

InOrder(calls) ==
    \A a, b \in 1..Len(calls) : a < b => Rank(calls[a]) < Rank(calls[b])

\* the first check the arguments of invocation i fail: the gate is closed
\* for a falsy allowMutations, the ceiling is passed by a greater count
FirstFailure(i) ==
    LET a == inv[i].args
    IN IF a.query.type # "string" \/ ParserRejects(a.query.tokens) THEN "syntax"
       ELSE IF MutationAtTopLevel(a.query.tokens)
               /\ a.allowMutations \in {"undefined", "false", "null", "0"}
       THEN "mutation"
       ELSE IF ~config.maxQueryComplexity.nan
               /\ FieldCount(a.query.tokens) > config.maxQueryComplexity.v
       THEN "complexity"
       ELSE IF a.variables.type = "string" /\ ~JSONParse(a.variables.text).ok
       THEN "variables"
       ELSE "none"

\* C14: handleGraphQLQuery checks syntax, mutation gate, complexity gate and
\*      variables in this order and returns the error of the first check that
\*      fails, without a request; it calls neither isMutation nor
\*      calculateQueryComplexity after the syntax check failed, and no later
\*      check after an earlier one failed
C14_FirstFailureReported ==
    \A i \in Slots :
        inv[i].pc # "idle" /\ inv[i].name = "graphql_query" /\ inv[i].args.bag =>
            LET first == FirstFailure(i)
                calls == inv[i].calls
                text == inv[i].result.content[1]
                failed == /\ inv[i].pc = "done" /\ inv[i].requests = 0
                          /\ inv[i].result.isError /\ Len(inv[i].result.content) = 1
            IN /\ InOrder(calls)
               /\ calls # <<>> /\ calls[1] = "parse"
               /\ first = "syntax" =>
                    /\ failed
                    /\ StartsWith(text, "Error executing GraphQL query: ")
                    /\ calls = <<"parse">>
               /\ first = "mutation" =>
                    /\ failed
                    /\ text = MutationNotAllowed
                    /\ calls = <<"parse", "isMutation">>
               /\ first = "complexity" =>
                    /\ failed
                    /\ StartsWith(text, "Query complexity (")
                    /\ calls[Len(calls)] = "calculateQueryComplexity"
               /\ first = "variables" =>
                    /\ failed
                    /\ StartsWith(text, "Failed to parse variables as JSON: ")
                    /\ calls[Len(calls)] = "JSON.parse"
               /\ first = "none" => calls[Len(calls)] = "executeGraphQLQuery"

C14_Witness ==
    \E i \in Slots :
        /\ QueryCall(i)
        /\ FirstFailure(i) = "mutation"
        /\ FieldCount(QueryTokens(i)) > config.maxQueryComplexity.v
        /\ ~config.maxQueryComplexity.nan
        /\ inv[i].args.variables = VarValue("string", "{bad")
        /\ inv[i].result = [content |-> <<MutationNotAllowed>>, isError |-> TRUE]
        /\ inv[i].calls = <<"parse", "isMutation">>

\* C15 as claimed: an invocation sends at most one request; graphql_query
\*      sends exactly one when the syntax check, the mutation gate, the
\*      complexity gate and the variable decode all pass and none otherwise;
\*      graphql_introspect sends exactly one; nothing is sent again after a
\*      failure
C15_OneRequestPerInvocation ==
    \A i \in Slots :
        inv[i].pc # "idle" /\ inv[i].args.bag =>
            /\ inv[i].requests <= 1
            /\ inv[i].name = "graphql_query" =>
                  (inv[i].requests = 1 <=> FirstFailure(i) = "none")
            /\ inv[i].name = "graphql_introspect" => inv[i].requests = 1

\* C16 as claimed: no invocation stays pending forever; whatever timeout the
\*      configuration or the request supplies, an invocation whose endpoint
\*      never answers is ended by the HTTP client's timeout with an error
\*      result whose text contains "No response received"
C16_InvocationsComplete ==
    \A i \in Slots :
        (inv[i].pc = "awaiting")
        ~> (/\ inv[i].pc = "done"
            /\ inv[i].result.isError
            /\ Len(inv[i].result.content) = 1
            /\ Contains(inv[i].result.content[1], "No response received"))

\* C17: with several invocations in flight and settled in any order, the
\*      request each one sends and the result it returns are those its own
\*      arguments, the configuration and the response to its own request
\*      give when it runs alone, and the configuration stays what start-up
\*      made it
C17_NoInterference ==
    /\ phase # "loading" => config = NewConfig(argv, env)
    /\ \A i \in DOMAIN inv :
        inv[i].pc # "idle" =>
            LET alone == CallToolEntry(inv[i].name, inv[i].args)
            IN /\ inv[i].requests = (IF alone.done THEN 0 ELSE 1)
               /\ inv[i].request = alone.request
               /\ inv[i].pc = "awaiting" => ~alone.done
               /\ inv[i].pc = "done" /\ alone.done => inv[i].result = alone.result
               /\ inv[i].pc = "done" /\ ~alone.done =>
                    \E executionTime \in 0..MaxElapsed :
                        inv[i].result = CallToolResume(inv[i].name, inv[i].args,
                                                       alone.request, inv[i].outcome,
                                                       executionTime)

\* an invocation that started while another was in flight has returned its
\* own answer before the other, whose request differs, is settled
C17_Witness ==
    \E i, j \in DOMAIN inv :
        /\ i # j
        /\ j \in inv[i].overlaps
        /\ inv[j].pc = "awaiting"
        /\ inv[i].pc = "done"
        /\ inv[i].outcome.kind = "response" /\ ~inv[i].result.isError
        /\ inv[i].request.endpoint # inv[j].request.endpoint
        /\ inv[i].request.headers # inv[j].request.headers

====
